---- MODULE Spec2Model ----
(***************************************************************************)
(* The lead-intake relay: one invocation of the serverless handler, from   *)
(* the request to the response, for each of the five revisions of the      *)
(* handler kept in the repository:                                         *)
(*   "strict"    src/api/lead-intake.ts   lines   1-151                    *)
(*   "flat"      src/api/lead-intake.ts   lines 153-276                    *)
(*   "nested"    src/unnamed/part_000     lines   1-65                     *)
(*   "echo"      src/unnamed/part_001     lines   1-46                     *)
(*   "normalize" src/unnamed/part_001     lines  48-138                    *)
(* Text is a sequence of one-character strings, so that trimming, the      *)
(* e-mail pattern and the phone normalisation are computed as the code     *)
(* computes them.                                                          *)
(***************************************************************************)
EXTENDS Integers, Sequences, FiniteSets, TLC

VARIABLES rev, cfg, req, pc, raw, fld, payload, calls, crm, responses, hdr, err

vars == <<rev, cfg, req, pc, raw, fld, payload, calls, crm, responses, hdr, err>>

(***************************************************************************)
(* Bounds of the model.                                                    *)
(***************************************************************************)
\* the longest caller-supplied tags array
MaxTags == 2

(***************************************************************************)
(* JavaScript values: undefined (null is not told apart from it: every     *)
(* test of the code treats the two alike), a string, an array of strings.  *)
(***************************************************************************)
Undef == [t |-> "undefined", s |-> <<>>, a |-> <<>>]
Str(s) == [t |-> "string", s |-> s, a |-> <<>>]
Arr(a) == [t |-> "array", s |-> <<>>, a |-> a]

\* the characters \s and \d match
IsSpace(c) == c \in {" ", "\t", "\n"}
IsDigit(c) == c \in {"0", "1", "2", "3", "4", "5", "6", "7", "8", "9"}

\* s.slice(i - 1, j)
Slice(s, i, j) == [k \in 1..(j - i + 1) |-> s[k + i - 1]]

\* String.prototype.trim
RECURSIVE TrimLeft(_)
TrimLeft(s) == IF s # <<>> /\ IsSpace(Head(s)) THEN TrimLeft(Tail(s)) ELSE s
RECURSIVE TrimRight(_)
TrimRight(s) ==
  IF s # <<>> /\ IsSpace(s[Len(s)]) THEN TrimRight(Slice(s, 1, Len(s) - 1)) ELSE s
Trim(s) == TrimRight(TrimLeft(s))

\* Array.prototype.join(',') of an array of strings
RECURSIVE Join(_)
Join(a) ==
  IF a = <<>> THEN <<>>
  ELSE IF Len(a) = 1 THEN a[1]
  ELSE a[1] \o <<",">> \o Join(Tail(a))

\* String(v)
String(v) ==
  CASE v.t = "string" -> v.s
    [] v.t = "array" -> Join(v.a)
    [] OTHER -> <<"u", "n", "d", "e", "f", "i", "n", "e", "d">>

\* the truthiness of a value: if (v), !v, v || w, v ? a : b
Truthy(v) ==
  CASE v.t = "string" -> v.s # <<>>
    [] v.t = "array" -> TRUE
    [] OTHER -> FALSE

\* a ?? b
Coalesce(a, b) == IF a.t # "undefined" THEN a ELSE b

\* a || b
OrElse(a, b) == IF Truthy(a) THEN a ELSE b

(***************************************************************************)
(* Validation helpers of the strict revision.                              *)
(***************************************************************************)
\* [^\s@]+ matches the whole of s
NoSpaceAt(s) == s # <<>> /\ \A k \in 1..Len(s) : ~IsSpace(s[k]) /\ s[k] # "@"

\* emailRe = /^[^\s@]+@[^\s@]+\.[^\s@]+$/i
emailRe(s) ==
  \E i \in 1..Len(s) : \E j \in 1..Len(s) :
    /\ i < j
    /\ s[i] = "@"
    /\ s[j] = "."
    /\ NoSpaceAt(Slice(s, 1, i - 1))
    /\ NoSpaceAt(Slice(s, i + 1, j - 1))
    /\ NoSpaceAt(Slice(s, j + 1, Len(s)))

\* normalizeEmail(v): String(v || '').trim()
normalizeEmail(v) == Trim(String(OrElse(v, Str(<<>>))))

\* isValidEmail(v): !!v && emailRe.test(v)
isValidEmail(s) == s # <<>> /\ emailRe(s)

IsDigitOrPlus(c) == IsDigit(c) \/ c = "+"

\* normalizePhoneToE164(v)
normalizePhoneToE164(v) ==
  LET rawp == SelectSeq(String(OrElse(v, Str(<<>>))), IsDigitOrPlus)
      digits == SelectSeq(rawp, IsDigit)
  IN  IF rawp = <<>> THEN <<>>
      ELSE IF Head(rawp) = "+" THEN rawp
      ELSE IF Len(digits) = 10 THEN <<"+", "1">> \o digits
      ELSE IF Len(digits) >= 11 /\ Len(digits) <= 15 THEN <<"+">> \o digits
      ELSE <<>>

\* isValidPhoneE164(v): /^\+\d{10,15}$/
isValidPhoneE164(s) ==
  /\ s # <<>>
  /\ Head(s) = "+"
  /\ Len(s) - 1 >= 10
  /\ Len(s) - 1 <= 15
  /\ \A k \in 2..Len(s) : IsDigit(s[k])

(***************************************************************************)
(* Process-wide configuration.                                             *)
(***************************************************************************)
Revs == {"nested", "strict", "flat", "normalize", "echo"}

\* the revisions that relay to the CRM (the echo revision never does)
RelayRevs == Revs \ {"echo"}

\* process.env.DEFAULT_SOURCE || 'Website: Georgia Blu Info Form'
DEFAULT_SOURCE == Str(<<"W", "e", "b", "s", "i", "t", "e", ":", " ", "G", "e", "o", "r", "g", "i", "a", " ", "B", "l", "u", " ", "I", "n", "f", "o", " ", "F", "o", "r", "m">>)

\* (process.env.DEFAULT_TAGS || 'Georgia Blu,New Development Leads')
\*   .split(',').map(s=>s.trim()).filter(Boolean)
DEFAULT_TAGS == << <<"G", "e", "o", "r", "g", "i", "a", " ", "B", "l", "u">>,
                   <<"N", "e", "w", " ", "D", "e", "v", "e", "l", "o", "p", "m", "e", "n", "t", " ", "L", "e", "a", "d", "s">> >>

NoOrigin == "<undefined>"
Example == "https://example.com"
Other == "https://other.example"
Evil == "https://evil.test"

\* the values of ALLOWED_ORIGINS: (env || '*').split(',').map(trim).filter(Boolean)
AllowLists == { <<"*">>, <<Example>>, <<Example, Other>>, <<"*", Example>>, <<>> }

\* cfg.LOFTY_API_KEY is TRUE when the key is a non-empty string
Configs == [ALLOWED_ORIGINS : AllowLists, LOFTY_API_KEY : BOOLEAN]
DefaultConfig == [ALLOWED_ORIGINS |-> <<"*">>, LOFTY_API_KEY |-> TRUE]

(***************************************************************************)
(* Requests.  The body is absent, an object the platform has parsed, or a  *)
(* string: empty, the JSON of an object, the JSON text null, the JSON     *)
(* text of a number, or no JSON.                                           *)
(***************************************************************************)
Keys == {"firstName", "FirstName", "Name", "name", "lastName", "LastName",
         "email", "Email", "phone", "Phone", "message", "Message",
         "hp", "_honey", "source", "tags", "tags[]", "marketingOptIn"}

EmptyObj == [k \in Keys |-> Undef]

sEmpty == <<>>
sBlank == <<" ">>
sAna == <<"A", "n", "a">>
sAl == <<"A", "l">>
sBo == <<"B", "o">>
sBoPad == <<" ", "B", "o", " ">>
sLeePad == <<" ", "L", "e", "e", " ">>
sMail == <<"a", "@", "b", ".", "c", "o", "m">>
sMailPad == <<" ", "a", "@", "b", ".", "c", "o", "m", " ">>
sMail2 == <<"c", "@", "d", ".", "o", "r", "g">>
sFoo == <<"f", "o", "o">>
sShort == <<"1", "2", "3">>
sNA == <<"(", "5", "5", "5", ")", " ", "1", "2", "3", "-", "4", "5", "6", "7">>
sUK == <<"+", "4", "4", " ", "2", "0", " ", "7", "9", "4", "6", " ", "0", "9", "5", "8">>
sPlusShort == <<"+", "1", "2">>
sEleven == <<"1", "5", "5", "5", "1", "2", "3", "4", "5", "6", "7">>
sSixteen == <<"1", "2", "3", "4", "5", "6", "7", "8", "9", "0", "1", "2", "3", "4", "5", "6">>
sTen == <<"5", "5", "5", "1", "2", "3", "4", "5", "6", "7">>
sAd == <<"a", "d">>
sAdPad == <<" ", "a", "d", " ">>
sHi == <<"h", "i">>
sHiPad == <<" ", "h", "i", " ">>
sX == <<"x">>
sYPad == <<" ", "y", " ">>
sZ == <<"z">>
sBot == <<"b", "o", "t">>

With(o, k, v) == [o EXCEPT ![k] = v]

\* a submission that passes every validation
BaseObj == With(With(EmptyObj, "firstName", Str(sAna)), "email", Str(sMail))

ObjBody(o) == [kind |-> "object", form |-> "object", obj |-> o]
StringBody(f, o) == [kind |-> "string", form |-> f, obj |-> o]
NoBody == [kind |-> "undefined", form |-> "empty", obj |-> EmptyObj]

\* the spellings of the first name
NameObjs ==
  { [BaseObj EXCEPT !["firstName"] = a, !["FirstName"] = b, !["Name"] = c, !["name"] = d] :
      a \in {Undef, Str(sEmpty), Str(sBlank), Str(sAna), Str(sBoPad)},
      b \in {Undef, Str(sAl)},
      c \in {Undef, Str(sEmpty), Str(sAna)},
      d \in {Undef, Str(sBo)} }

\* the contact fields
ContactObjs ==
  { [BaseObj EXCEPT !["email"] = a, !["Email"] = b, !["phone"] = c, !["Phone"] = d] :
      a \in {Undef, Str(sEmpty), Str(sMail), Str(sMailPad), Str(sFoo)},
      b \in {Undef, Str(sMail2)},
      c \in {Undef, Str(sEmpty), Str(sBlank), Str(sShort), Str(sNA), Str(sUK),
             Str(sPlusShort), Str(sEleven), Str(sSixteen)},
      d \in {Undef, Str(sTen)} }

\* the honeypot, with good and bad submissions behind it
HoneypotObjs ==
  { [EmptyObj EXCEPT !["hp"] = a, !["_honey"] = b, !["firstName"] = c,
                     !["email"] = d, !["phone"] = e] :
      a \in {Undef, Str(sEmpty), Str(sBlank), Str(sX)},
      b \in {Undef, Str(sEmpty), Str(sBot)},
      c \in {Undef, Str(sAna)},
      d \in {Undef, Str(sMail), Str(sFoo)},
      e \in {Undef, Str(sShort)} }

\* source, last name and message
SourceObjs ==
  { [BaseObj EXCEPT !["source"] = a, !["lastName"] = b, !["LastName"] = c,
                    !["message"] = d, !["Message"] = e, !["marketingOptIn"] = f] :
      a \in {Undef, Str(sEmpty), Str(sBlank), Str(sAd), Str(sAdPad)},
      b \in {Undef, Str(sEmpty), Str(sLeePad)},
      c \in {Undef, Str(sAl)},
      d \in {Undef, Str(sEmpty), Str(sHiPad)},
      e \in {Undef, Str(sHi)},
      f \in {Undef, Str(sX)} }

\* the caller's tags: absent, one string, or an array of at most MaxTags strings
TagVals == {sX, sYPad, sEmpty}
TagArrays == UNION { [1..n -> TagVals] : n \in 0..MaxTags }
TagInputs == {Undef, Str(sEmpty), Str(sBlank), Str(sX)} \cup { Arr(a) : a \in TagArrays }

TagObjs ==
  { [BaseObj EXCEPT !["tags"] = a, !["tags[]"] = b] :
      a \in TagInputs,
      b \in {Undef, Str(sZ), Arr(<<sZ, sX>>)} }

Bodies ==
  { ObjBody(o) : o \in NameObjs \cup ContactObjs \cup HoneypotObjs \cup SourceObjs \cup TagObjs }
  \cup { NoBody,
         StringBody("empty", EmptyObj),
         StringBody("object", BaseObj),
         StringBody("object", With(EmptyObj, "hp", Str(sX))),
         StringBody("malformed", EmptyObj),
         StringBody("null", EmptyObj),
         StringBody("number", EmptyObj) }

Methods == {"OPTIONS", "GET", "PUT", "POST"}
Origins == {NoOrigin, Example, Evil}

\* every configuration, method and origin, with a good, a trapped and a broken body
GateScenarios ==
  [cfg : Configs,
   req : [method : Methods, origin : Origins,
          body : {ObjBody(BaseObj), ObjBody(With(BaseObj, "_honey", Str(sBot))),
                  StringBody("malformed", EmptyObj)}]]

\* every body, posted under the default configuration
BodyScenarios ==
  [cfg : {DefaultConfig},
   req : [method : {"POST"}, origin : {NoOrigin}, body : Bodies]]

Scenarios == GateScenarios \cup BodyScenarios

(***************************************************************************)
(* Responses.  keys is the set of keys of the JSON body; a response ended  *)
(* without a body (res.status(204).end()) has json = FALSE.                *)
(***************************************************************************)
NullId == "<null>"
Absent == "<undefined>"
Unset == "<unset>"

NoFld == [firstName |-> Undef, lastName |-> Undef, email |-> Undef, phone |-> Undef,
          message |-> Undef, hp |-> Undef, source |-> Undef, tags |-> Undef,
          marketingOptIn |-> Undef]

Response(status, keys) ==
  [status |-> status, json |-> TRUE, keys |-> keys, error |-> "", ok |-> FALSE,
   skipped |-> "", loftyLeadId |-> Absent, detail |-> "", normalized |-> NoFld]

\* res.status(s).end()
End(status) == [Response(status, {}) EXCEPT !.json = FALSE]
\* res.status(s).json({ error })
Error(status, msg) == [Response(status, {"error"}) EXCEPT !.error = msg]
\* res.status(s).json({ error, detail })
ErrorDetail(status, msg, detail) ==
  [Response(status, {"error", "detail"}) EXCEPT !.error = msg, !.detail = detail]
\* res.status(200).json({ ok: true })
Ok == [Response(200, {"ok"}) EXCEPT !.ok = TRUE]
\* res.status(200).json({ ok: true, skipped: 'honeypot' })
OkSkipped == [Response(200, {"ok", "skipped"}) EXCEPT !.ok = TRUE, !.skipped = "honeypot"]
\* res.status(200).json({ ok: true, loftyLeadId: id })
OkLead(id) == [Response(200, {"ok", "loftyLeadId"}) EXCEPT !.ok = TRUE, !.loftyLeadId = id]
\* res.status(200).json({ ok: true, normalized: {...} })
OkNormalized(f) == [Response(200, {"ok", "normalized"}) EXCEPT !.ok = TRUE, !.normalized = f]

(***************************************************************************)
(* CORS.                                                                   *)
(***************************************************************************)
Includes(list, x) == \E k \in 1..Len(list) : list[k] = x

\* setCORS(res, origin) of the revision r under the allow-list
setCORS(r, allowed, origin) ==
  IF r = "nested"
  THEN LET allow == IF origin # NoOrigin /\ Includes(allowed, origin) THEN origin
                    ELSE IF allowed # <<>> THEN allowed[1]
                    ELSE "*"
       IN  [acao |-> allow, vary |-> Unset]
  ELSE LET allowAny == Includes(allowed, "*")
           allowThis == origin # NoOrigin /\ (allowAny \/ Includes(allowed, origin))
       IN  [acao |-> IF allowThis THEN origin ELSE "*", vary |-> "Origin"]

(***************************************************************************)
(* Body parsing and field resolution.                                      *)
(***************************************************************************)
\* typeof req.body === 'string' ? JSON.parse(req.body || '{}') : (req.body || {})
\* thrown: JSON.parse fails; isNull: the JSON text null
ParsedBody(body) ==
  IF body.kind = "string"
  THEN CASE body.form = "empty" -> [thrown |-> FALSE, isNull |-> FALSE, obj |-> EmptyObj]
         [] body.form = "object" -> [thrown |-> FALSE, isNull |-> FALSE, obj |-> body.obj]
         [] body.form = "null" -> [thrown |-> FALSE, isNull |-> TRUE, obj |-> EmptyObj]
         \* the JSON text of a number: its property reads yield undefined
         [] body.form = "number" -> [thrown |-> FALSE, isNull |-> FALSE, obj |-> EmptyObj]
         [] OTHER -> [thrown |-> TRUE, isNull |-> FALSE, obj |-> EmptyObj]
  ELSE IF body.kind = "object"
  THEN [thrown |-> FALSE, isNull |-> FALSE, obj |-> body.obj]
  ELSE [thrown |-> FALSE, isNull |-> FALSE, obj |-> EmptyObj]

\* a ?? b ?? ... ?? '' over the aliases of a field, in order
RECURSIVE FirstDefined(_, _)
FirstDefined(o, aliases) ==
  IF aliases = <<>> THEN Str(<<>>)
  ELSE Coalesce(o[Head(aliases)], FirstDefined(o, Tail(aliases)))

\* let tags = []; if (Array.isArray(tagsInput)) tags = tagsInput.map(String);
\* else if (typeof tagsInput === 'string') tags = [tagsInput];
TagsOf(tagsInput) ==
  CASE tagsInput.t = "array" -> Arr(tagsInput.a)
    [] tagsInput.t = "string" -> Arr(<<tagsInput.s>>)
    [] OTHER -> Arr(<<>>)

\* Array.isArray(tagsInput) ? tagsInput : (tagsInput ? [tagsInput] : [])
TagsOfNormalize(tagsInput) ==
  IF tagsInput.t = "array" THEN tagsInput
  ELSE IF Truthy(tagsInput) THEN Arr(<<tagsInput.s>>)
  ELSE Arr(<<>>)

\* the constants the handler derives from the parsed body
Resolve(r, o) ==
  IF r = "nested"
  THEN [firstName |-> o["firstName"], lastName |-> o["lastName"], email |-> o["email"],
        phone |-> o["phone"], message |-> o["message"], hp |-> o["hp"],
        source |-> o["source"], tags |-> o["tags"],
        marketingOptIn |-> o["marketingOptIn"]]
  ELSE [firstName |-> FirstDefined(o, <<"firstName", "FirstName", "Name", "name">>),
        lastName |-> FirstDefined(o, <<"lastName", "LastName">>),
        email |-> FirstDefined(o, <<"email", "Email">>),
        phone |-> FirstDefined(o, <<"phone", "Phone">>),
        message |-> FirstDefined(o, <<"message", "Message">>),
        hp |-> FirstDefined(o, <<"hp", "_honey">>),
        source |-> IF r = "strict"
                   THEN Str(Trim(String(Coalesce(o["source"], DEFAULT_SOURCE))))
                   ELSE Coalesce(o["source"], DEFAULT_SOURCE),
        tags |-> IF r = "normalize"
                 THEN TagsOfNormalize(Coalesce(Coalesce(o["tags"], o["tags[]"]), Arr(<<>>)))
                 ELSE TagsOf(Coalesce(o["tags"], o["tags[]"])),
        marketingOptIn |-> Undef]

(***************************************************************************)
(* Validation.                                                             *)
(***************************************************************************)
NoError == Error(0, "")

Blank(v) == Trim(String(v)) = <<>>

\* ValidationError with the tests made on the values as given, untrimmed
ValidationErrorUntrimmed(r, f) ==
  IF r = "echo" THEN NoError
  ELSE IF ~Truthy(f.firstName) \/ (~Truthy(f.email) /\ ~Truthy(f.phone))
  THEN Error(IF r = "strict" THEN 422 ELSE 400, "Need first name and (email or phone)")
  ELSE NoError

\* the client error of the submission, or NoError
ValidationError(r, f) ==
  CASE r = "strict" ->
         LET email == normalizeEmail(f.email)
             phone == normalizePhoneToE164(f.phone)
         IN  IF Blank(f.firstName)
             THEN Error(422, "First name is required.")
             ELSE IF email = <<>> /\ phone = <<>>
             THEN Error(422, "Provide at least an email or a phone.")
             ELSE IF email # <<>> /\ ~isValidEmail(email)
             THEN Error(422, "Email is not valid.")
             ELSE IF Truthy(f.phone) /\ phone = <<>>
             THEN Error(422, "Phone number is not valid. Use 10 digits (NA) or an international format.")
             ELSE IF phone # <<>> /\ ~isValidPhoneE164(phone)
             THEN Error(422, "Phone is not valid E.164.")
             ELSE NoError
    [] r = "flat" ->
         IF Blank(f.firstName) \/ (Blank(f.email) /\ Blank(f.phone))
         THEN Error(400, "Need first name and (email or phone)")
         ELSE NoError
    [] r = "normalize" ->
         IF Blank(f.firstName) \/ (Blank(f.email) /\ Blank(f.phone))
         THEN Error(400, "Need firstName (or Name) and (email/Email or phone/Phone)")
         ELSE NoError
    [] r = "nested" ->
         IF ~Truthy(f.firstName) \/ (~Truthy(f.email) /\ ~Truthy(f.phone))
         THEN Error(400, "Need firstName and (email or phone)")
         ELSE NoError
    [] OTHER -> NoError

(***************************************************************************)
(* The payload.  A key whose value is Undef is left out of the JSON sent.  *)
(***************************************************************************)
\* String(v).trim() || undefined
TrimOrUndef(v) == OrElse(Str(Trim(String(v))), Undef)

\* .map(s => String(s).trim())
MapTrim(a) == [k \in 1..Len(a) |-> Trim(a[k])]
NonEmpty(s) == s # <<>>
\* .filter(Boolean)
FilterBoolean(a) == SelectSeq(a, NonEmpty)

\* message ? String(message).trim() : ''
Notes(f) == IF Truthy(f.message) THEN Str(Trim(String(f.message))) ELSE Str(<<>>)

\* x ? [x] : undefined
ListOrUndef(v) == IF Truthy(v) THEN Arr(<<v.s>>) ELSE Undef

BuildPayload(r, f) ==
  CASE r = "strict" ->
         LET email == Str(normalizeEmail(f.email))
             phone == Str(normalizePhoneToE164(f.phone))
         IN  [shape |-> "camelCase",
              firstName |-> Str(Trim(String(f.firstName))),
              lastName |-> TrimOrUndef(OrElse(f.lastName, Str(<<>>))),
              source |-> f.source,
              tags |-> FilterBoolean(MapTrim(DEFAULT_TAGS \o f.tags.a)),
              notes |-> Notes(f),
              email |-> OrElse(email, Undef),
              phone |-> OrElse(phone, Undef),
              emails |-> ListOrUndef(email),
              phones |-> ListOrUndef(phone),
              marketing_opt_in |-> Absent]
    [] r = "flat" ->
         [shape |-> "snake_case",
          firstName |-> Str(Trim(String(f.firstName))),
          lastName |-> TrimOrUndef(OrElse(f.lastName, Str(<<>>))),
          source |-> Str(Trim(String(f.source))),
          tags |-> FilterBoolean(MapTrim(DEFAULT_TAGS \o f.tags.a)),
          notes |-> Notes(f),
          email |-> TrimOrUndef(OrElse(f.email, Str(<<>>))),
          phone |-> TrimOrUndef(OrElse(f.phone, Str(<<>>))),
          emails |-> Undef,
          phones |-> Undef,
          marketing_opt_in |-> Absent]
    [] r = "normalize" ->
         [shape |-> "snake_case",
          firstName |-> Str(Trim(String(OrElse(f.firstName, Str(<<>>))))),
          lastName |-> Str(Trim(String(OrElse(f.lastName, Str(<<>>))))),
          source |-> Str(Trim(String(OrElse(f.source, Str(<<>>))))),
          tags |-> IF f.tags.t = "array" THEN FilterBoolean(MapTrim(f.tags.a)) ELSE <<>>,
          notes |-> Notes(f),
          email |-> TrimOrUndef(OrElse(f.email, Str(<<>>))),
          phone |-> TrimOrUndef(OrElse(f.phone, Str(<<>>))),
          emails |-> Undef,
          phones |-> Undef,
          marketing_opt_in |-> Absent]
    [] OTHER ->
         [shape |-> "nested",
          firstName |-> Str(Trim(String(f.firstName))),
          lastName |-> Str(Trim(String(OrElse(f.lastName, Str(<<>>))))),
          source |-> Str(Trim(String(OrElse(f.source, DEFAULT_SOURCE)))),
          tags |-> FilterBoolean(DEFAULT_TAGS \o (IF f.tags.t = "array" THEN f.tags.a ELSE <<>>)),
          notes |-> Notes(f),
          email |-> Undef,
          phone |-> Undef,
          emails |-> IF Truthy(f.email) THEN Arr(<<Trim(String(f.email))>>) ELSE Arr(<<>>),
          phones |-> IF Truthy(f.phone) THEN Arr(<<Trim(String(f.phone))>>) ELSE Arr(<<>>),
          marketing_opt_in |-> IF Truthy(f.marketingOptIn) THEN "true" ELSE "false"]

NoPayload == BuildPayload("nested", NoFld)

(***************************************************************************)
(* The CRM's answer.  A body text is named by its content; JSONparse is    *)
(* what JSON.parse yields on it.                                           *)
(***************************************************************************)
tRateLimited == "rate limited"
tEmpty == ""
tEmptyObj == "{}"
tNull == "null"
tId == "{\"id\":\"L123\"}"
tLeadId == "{\"leadId\":\"L2\"}"
tLead == "{\"lead\":{\"id\":\"L3\"}}"
tData == "{\"data\":{\"id\":\"L4\"}}"
tNullId == "{\"id\":null,\"leadId\":\"L2\",\"lead\":{\"id\":\"L3\"}}"
tBlankId == "{\"id\":\"\",\"leadId\":\"L2\"}"
tLeadData == "{\"lead\":{\"id\":\"L3\"},\"data\":{\"id\":\"L4\"}}"
tAll == "{\"id\":\"L123\",\"leadId\":\"L2\",\"lead\":{\"id\":\"L3\"},\"data\":{\"id\":\"L4\"}}"

CrmTexts == {tRateLimited, tEmpty, tEmptyObj, tNull, tId, tLeadId, tLead, tData,
             tNullId, tBlankId, tLeadData, tAll}

Data(id, leadId, lead, data) ==
  [thrown |-> FALSE, id |-> id, leadId |-> leadId, lead_id |-> lead, data_id |-> data]

\* JSON.parse(text): thrown when text is no JSON; a field that is missing or
\* null is Absent (null itself parses to a value without fields)
JSONparse(text) ==
  CASE text = tEmptyObj -> Data(Absent, Absent, Absent, Absent)
    [] text = tNull -> Data(Absent, Absent, Absent, Absent)
    [] text = tId -> Data("L123", Absent, Absent, Absent)
    [] text = tLeadId -> Data(Absent, "L2", Absent, Absent)
    [] text = tLead -> Data(Absent, Absent, "L3", Absent)
    [] text = tData -> Data(Absent, Absent, Absent, "L4")
    [] text = tNullId -> Data(Absent, "L2", "L3", Absent)
    [] text = tBlankId -> Data("", "L2", Absent, Absent)
    [] text = tLeadData -> Data(Absent, Absent, "L3", "L4")
    [] text = tAll -> Data("L123", "L2", "L3", "L4")
    [] OTHER -> [Data(Absent, Absent, Absent, Absent) EXCEPT !.thrown = TRUE]

\* a ?? b on identifiers
Or2(a, b) == IF a # Absent THEN a ELSE b

\* the loftyLeadId of the 200 response
LeadId(r, text) ==
  CASE r = "strict" ->
         \* try { data = JSON.parse(text || '{}'); id = data?.id ?? ... ?? null } catch {}
         LET data == JSONparse(IF text = "" THEN tEmptyObj ELSE text)
         IN  IF data.thrown THEN NullId
             ELSE Or2(data.id, Or2(data.leadId, Or2(data.lead_id, Or2(data.data_id, NullId))))
    [] r = "flat" ->
         \* let data = {}; try { data = JSON.parse(text) } catch {}; data?.id ?? null
         LET data == JSONparse(text)
         IN  IF data.thrown THEN NullId ELSE Or2(data.id, NullId)
    [] OTHER ->
         \* data?.id || null
         LET data == JSONparse(text)
         IN  IF data.thrown \/ data.id = Absent \/ data.id = "" THEN NullId ELSE data.id

NoCrm == [ok |-> FALSE, text |-> "", readable |-> FALSE]

(***************************************************************************)
(* The handler, one action per stage.  pc is the stage the invocation is   *)
(* at; "done" after the response, "escaped" when an exception left the     *)
(* handler.                                                                *)
(***************************************************************************)
Init ==
  /\ rev \in Revs
  /\ \E s \in Scenarios : cfg = s.cfg /\ req = s.req
  /\ pc = "start"
  /\ raw = [isNull |-> FALSE, obj |-> EmptyObj]
  /\ fld = NoFld
  /\ payload = NoPayload
  /\ calls = 0
  /\ crm = NoCrm
  /\ responses = <<>>
  /\ hdr = [acao |-> Unset, vary |-> Unset]
  /\ err = ""

\* return res.status(..).json(..) or .end()
Respond(r) ==
  /\ responses' = Append(responses, r)
  /\ pc' = "done"

\* throw inside the try block
Throw(msg) ==
  /\ err' = msg
  /\ pc' = "catch"

\* GateResponse with the API-key gate ahead of the method gates
GateResponseKeyFirst(r, c, method) ==
  IF r # "echo" /\ ~c.LOFTY_API_KEY THEN Error(500, "Missing LOFTY_API_KEY env var")
  ELSE IF method = "OPTIONS" THEN End(204)
  ELSE IF method # "POST" THEN Error(405, "Method not allowed")
  ELSE NoError

\* the answer of the request gates, or NoError when the request passes them
GateResponse(r, c, method) ==
  IF method = "OPTIONS" THEN End(204)
  ELSE IF method # "POST" THEN Error(405, "Method not allowed")
  ELSE IF r # "echo" /\ ~c.LOFTY_API_KEY THEN Error(500, "Missing LOFTY_API_KEY env var")
  ELSE NoError

\* setCORS, then the method gate and the API-key gate
Gate ==
  /\ pc = "start"
  /\ hdr' = setCORS(rev, cfg.ALLOWED_ORIGINS, req.origin)
  /\ IF GateResponse(rev, cfg, req.method) # NoError
     THEN Respond(GateResponse(rev, cfg, req.method))
     ELSE pc' = "parse" /\ UNCHANGED responses
  /\ UNCHANGED <<rev, cfg, req, raw, fld, payload, calls, crm, err>>

\* const raw = typeof req.body === 'string' ? JSON.parse(...) : (req.body || {})
ParseBody ==
  /\ pc = "parse"
  /\ LET p == ParsedBody(req.body)
     IN  IF p.thrown
         THEN Throw("Unexpected token in JSON") /\ UNCHANGED raw
         ELSE /\ raw' = [isNull |-> p.isNull, obj |-> p.obj]
              /\ pc' = "resolve"
              /\ UNCHANGED err
  /\ UNCHANGED <<rev, cfg, req, fld, payload, calls, crm, responses, hdr>>

\* the property reads of raw; reading a property of null throws
ResolveFields ==
  /\ pc = "resolve"
  /\ IF raw.isNull
     THEN Throw("Cannot read properties of null") /\ UNCHANGED fld
     ELSE /\ fld' = Resolve(rev, raw.obj)
          /\ pc' = "honeypot"
          /\ UNCHANGED err
  /\ UNCHANGED <<rev, cfg, req, raw, payload, calls, crm, responses, hdr>>

\* if (hp) return res.status(200).json({ ok: true })
Honeypot ==
  /\ pc = "honeypot"
  /\ IF Truthy(fld.hp)
     THEN Respond(IF rev = "echo" THEN OkSkipped ELSE Ok)
     ELSE pc' = "validate" /\ UNCHANGED responses
  /\ UNCHANGED <<rev, cfg, req, raw, fld, payload, calls, crm, hdr, err>>

\* the validation of the relaying revisions
Validate ==
  /\ pc = "validate"
  /\ rev \in RelayRevs
  /\ IF ValidationError(rev, fld) # NoError
     THEN Respond(ValidationError(rev, fld))
     ELSE pc' = "send" /\ UNCHANGED responses
  /\ UNCHANGED <<rev, cfg, req, raw, fld, payload, calls, crm, hdr, err>>

\* the echo revision answers with what it resolved
Echo ==
  /\ pc = "validate"
  /\ rev = "echo"
  /\ Respond(OkNormalized(fld))
  /\ UNCHANGED <<rev, cfg, req, raw, fld, payload, calls, crm, hdr, err>>

\* the payload is built and fetch(`${LOFTY_API_BASE}/leads`, ...) is called
Send ==
  /\ pc = "send"
  /\ payload' = BuildPayload(rev, fld)
  /\ calls' = calls + 1
  /\ pc' = "fetch"
  /\ UNCHANGED <<rev, cfg, req, raw, fld, crm, responses, hdr, err>>

\* FetchReject with the call issued again after a network failure
FetchRejectRetry ==
  /\ pc = "fetch"
  /\ pc' = "send"
  /\ UNCHANGED <<rev, cfg, req, raw, fld, payload, calls, crm, responses, hdr, err>>

\* await fetch(...) rejects: a network-level failure
FetchReject ==
  /\ pc = "fetch"
  /\ Throw("fetch failed")
  /\ UNCHANGED <<rev, cfg, req, raw, fld, payload, calls, crm, responses, hdr>>

\* await fetch(...) resolves with the CRM's status and body
FetchResolve ==
  /\ pc = "fetch"
  /\ \E ok \in BOOLEAN, text \in CrmTexts, readable \in BOOLEAN :
       /\ readable \/ text = ""
       /\ crm' = [ok |-> ok, text |-> text, readable |-> readable]
  /\ pc' = "text"
  /\ UNCHANGED <<rev, cfg, req, raw, fld, payload, calls, responses, hdr, err>>

\* const text = await r.text(), which rejects when the body cannot be read
ReadText ==
  /\ pc = "text"
  /\ IF crm.readable
     THEN pc' = "map" /\ UNCHANGED err
     ELSE Throw("body stream failed")
  /\ UNCHANGED <<rev, cfg, req, raw, fld, payload, calls, crm, responses, hdr>>

\* the response after the outbound call
Mapped(r, c) ==
  IF ~c.ok THEN ErrorDetail(502, "Lofty API error", c.text)
  ELSE OkLead(LeadId(r, c.text))

MapResponse ==
  /\ pc = "map"
  /\ Respond(Mapped(rev, crm))
  /\ UNCHANGED <<rev, cfg, req, raw, fld, payload, calls, crm, hdr, err>>

\* catch (err) { return res.status(500).json({ error, detail }) }
CatchResponse(r, msg) ==
  IF r = "echo" THEN ErrorDetail(500, "Echo crash", msg)
  ELSE ErrorDetail(500, "Server error", msg)

Catch ==
  /\ pc = "catch"
  /\ rev # "normalize"
  /\ Respond(CatchResponse(rev, err))
  /\ UNCHANGED <<rev, cfg, req, raw, fld, payload, calls, crm, hdr, err>>

\* the try block of the normalize revision has no catch clause
Escape ==
  /\ pc = "catch"
  /\ rev = "normalize"
  /\ pc' = "escaped"
  /\ UNCHANGED <<rev, cfg, req, raw, fld, payload, calls, crm, responses, hdr, err>>

Next ==
  \/ Gate
  \/ ParseBody
  \/ ResolveFields
  \/ Honeypot
  \/ Validate
  \/ Echo
  \/ Send
  \/ FetchReject
  \/ FetchResolve
  \/ ReadText
  \/ MapResponse
  \/ Catch
  \/ Escape

Spec == Init /\ [][Next]_vars

(***************************************************************************)
(* What the claims speak of.                                               *)
(***************************************************************************)
\* the request passed the three gates and its body parsed to an object
Accepted ==
  /\ req.method = "POST"
  /\ rev = "echo" \/ cfg.LOFTY_API_KEY
  /\ ~ParsedBody(req.body).thrown
  /\ ~ParsedBody(req.body).isNull

\* the object the body stands for
Submitted == ParsedBody(req.body).obj

\* the fields have been resolved from the parsed body
Resolved == Accepted /\ pc \notin {"start", "parse", "resolve"}

\* one response has been sent, and it is r
Answered(r) == pc = "done" /\ responses = <<r>>

ClientError(r) == r.status \in {400, 422} /\ r.keys = {"error"}

\* the first alias, in order, that holds a non-empty value; '' when none does
RECURSIVE FirstNonEmpty(_, _)
FirstNonEmpty(o, aliases) ==
  IF aliases = <<>> THEN Str(<<>>)
  ELSE IF Truthy(o[Head(aliases)]) THEN o[Head(aliases)]
  ELSE FirstNonEmpty(o, Tail(aliases))

(***************************************************************************)
(* C1.  One invocation produces exactly one response and at most one       *)
(* outbound POST, whatever the method, body, configuration and CRM         *)
(* outcome: never more than one response or call, a finished invocation    *)
(* has answered once, and an unfinished one can always go on.  Stated of   *)
(* the revisions whose try block has a catch clause.                       *)
(***************************************************************************)
C1_OneResponseOneCall ==
  rev # "normalize" =>
    /\ calls \in {0, 1}
    /\ Len(responses) <= 1
    /\ (pc = "done") <=> (Len(responses) = 1)
    /\ pc # "done" => ENABLED Next
    /\ pc \in {"start", "parse", "resolve", "honeypot", "validate", "send"} => calls = 0

\* a network failure of the one outbound call has been answered, once
C1_Witness ==
  /\ rev = "strict"
  /\ pc = "done"
  /\ err = "fetch failed"
  /\ calls = 1
  /\ Len(responses) = 1

(***************************************************************************)
(* C2.  A submission whose honeypot (hp or its alias _honey) is non-empty  *)
(* is answered 200 {"ok": true} whatever its other fields, and the CRM is  *)
(* not called.  Stated of the strict and the echo revision.                *)
(***************************************************************************)
C2_HoneypotAlwaysOk ==
  ( /\ rev \in {"strict", "echo"}
    /\ Accepted
    /\ Truthy(Submitted["hp"]) \/ Truthy(Submitted["_honey"]) )
  => /\ calls = 0
     /\ pc = "done" => responses = <<Ok>>

(***************************************************************************)
(* C3.  A submission with an empty honeypot whose first name is empty      *)
(* after trimming, or whose email and phone are both empty after trimming  *)
(* (the strict revision: after normalisation), is answered with a client   *)
(* error and the CRM is never called; every payload sent carries a         *)
(* non-empty first name and a non-empty email or phone.  Stated of the     *)
(* strict and the flat revision.                                           *)
(***************************************************************************)
C3_NoContact(r, f) ==
  /\ Trim(String(f.email)) = <<>>
  /\ IF r = "strict" THEN normalizePhoneToE164(f.phone) = <<>>
     ELSE Trim(String(f.phone)) = <<>>

C3_Incomplete == Trim(String(fld.firstName)) = <<>> \/ C3_NoContact(rev, fld)

C4_FirstNonEmptyAlias ==
  (rev = "strict" /\ Resolved) =>
    /\ fld.firstName = FirstNonEmpty(Submitted, <<"firstName", "FirstName", "Name", "name">>)
    /\ fld.lastName = FirstNonEmpty(Submitted, <<"lastName", "LastName">>)
    /\ fld.email = FirstNonEmpty(Submitted, <<"email", "Email">>)
    /\ fld.phone = FirstNonEmpty(Submitted, <<"phone", "Phone">>)
    /\ fld.message = FirstNonEmpty(Submitted, <<"message", "Message">>)
    /\ fld.hp = FirstNonEmpty(Submitted, <<"hp", "_honey">>)

(***************************************************************************)
(* C5.  In the strict revision, with a valid first name and an empty       *)
(* honeypot, a phone that was supplied (it is not blank) and does not      *)
(* normalise is rejected with a validation error that differs from the     *)
(* answer the same submission gets without a phone, whatever the email.    *)
(***************************************************************************)
C5_WithoutPhone == ValidationError(rev, [fld EXCEPT !.phone = Str(<<>>)])

\* C5: a supplied phone that does not normalise gets an error of its own
C5_BadPhoneDistinctError ==
  ( /\ rev = "strict"
    /\ Resolved
    /\ pc = "done"
    /\ ~Truthy(fld.hp)
    /\ ~Blank(fld.firstName)
    /\ ~Blank(fld.phone)
    /\ normalizePhoneToE164(fld.phone) = <<>> )
  => /\ Len(responses) = 1
     /\ ClientError(responses[1])
     /\ responses[1] # C5_WithoutPhone

(***************************************************************************)
(* C6.  The source of every payload sent is the caller's source when that  *)
(* is present and non-empty after trimming, and the configured default     *)
(* otherwise; it is never empty.  Stated of the strict and the nested      *)
(* revision.                                                               *)
(***************************************************************************)
C6_Source ==
  IF Submitted["source"].t = "string" /\ Trim(Submitted["source"].s) # <<>>
  THEN Str(Trim(Submitted["source"].s))
  ELSE DEFAULT_SOURCE

\* C6: the payload's source is the caller's non-empty source, else the default
C6_SourceOrDefault ==
  (rev \in {"strict", "nested"} /\ calls > 0) =>
    /\ payload.source = C6_Source
    /\ payload.source.s # <<>>

(***************************************************************************)
(* C7.  When the Origin is in the allow-list the response carries          *)
(* Access-Control-Allow-Origin: that origin and Vary: Origin; when it is   *)
(* not listed and the allow-list is the wildcard alone, the response       *)
(* carries Access-Control-Allow-Origin: *.  Stated of the strict and the   *)
(* nested revision.                                                        *)
(***************************************************************************)
C7_Cors ==
  (rev \in {"strict", "nested"} /\ pc # "start") =>
    /\ (req.origin # NoOrigin /\ Includes(cfg.ALLOWED_ORIGINS, req.origin)) =>
         hdr.acao = req.origin /\ hdr.vary = "Origin"
    /\ ( /\ req.origin # NoOrigin
         /\ ~Includes(cfg.ALLOWED_ORIGINS, req.origin)
         /\ cfg.ALLOWED_ORIGINS = <<"*">> ) =>
         hdr.acao = "*"

(***************************************************************************)
(* C8.  After the outbound call, a non-success CRM status is answered 502  *)
(* with the raw CRM body as detail, and a success status 200 with ok: true *)
(* and the first present of id, leadId, lead.id, data.id, or null when     *)
(* none is present or the body is no JSON; a 200 carrying loftyLeadId      *)
(* follows only a call that returned a success status.  Stated of the      *)
(* strict and the flat revision.                                           *)
(***************************************************************************)
C8_LeadId(text) ==
  LET data == JSONparse(text)
  IN  IF data.thrown THEN NullId
      ELSE IF data.id # Absent THEN data.id
      ELSE IF data.leadId # Absent THEN data.leadId
      ELSE IF data.lead_id # Absent THEN data.lead_id
      ELSE IF data.data_id # Absent THEN data.data_id
      ELSE NullId

\* C8: 502 with the raw body on a non-success status, 200 with the first
\* present identifier on success, loftyLeadId only after a successful call
C8_ResponseMapping ==
  rev \in {"strict", "flat"} =>
    /\ (pc = "done" /\ calls = 1 /\ crm.readable /\ ~crm.ok) =>
         responses = <<ErrorDetail(502, "Lofty API error", crm.text)>>
    /\ (pc = "done" /\ calls = 1 /\ crm.readable /\ crm.ok) =>
         responses = <<OkLead(C8_LeadId(crm.text))>>
    /\ \A k \in 1..Len(responses) :
         (responses[k].status = 200 /\ "loftyLeadId" \in responses[k].keys) =>
           calls = 1 /\ crm.ok

(***************************************************************************)
(* C9.  The tags of every payload sent are the configured default tags     *)
(* followed by the caller's tags (tags, else tags[]; one string counts as  *)
(* a one-element sequence), each trimmed, the empty ones dropped, order    *)
(* and duplicates kept.  Stated of the strict and the normalize revision.  *)
(***************************************************************************)
C9_CallerTags ==
  LET given == IF Submitted["tags"].t # "undefined" THEN Submitted["tags"]
               ELSE Submitted["tags[]"]
  IN  CASE given.t = "array" -> given.a
        [] given.t = "string" -> <<given.s>>
        [] OTHER -> <<>>

C9_Trimmed(a) == SelectSeq([k \in 1..Len(a) |-> Trim(a[k])], NonEmpty)

\* C9: the payload's tags are the default tags, then the caller's, trimmed
\* and without the empty ones
C9_DefaultsThenCallerTags ==
  (rev \in {"strict", "normalize"} /\ calls > 0) =>
    payload.tags = C9_Trimmed(DEFAULT_TAGS) \o C9_Trimmed(C9_CallerTags)

(***************************************************************************)
(* C10.  The gates come first and in this order: OPTIONS is answered 204   *)
(* without a body, any other method than POST 405, a POST without the CRM  *)
(* API key 500; on these paths the body is not touched and the CRM is not  *)
(* called, whatever the body holds.  The key gate is stated of the         *)
(* revisions that hold a key.                                              *)
(***************************************************************************)
C10_Gated ==
  \/ req.method # "POST"
  \/ rev \in RelayRevs /\ ~cfg.LOFTY_API_KEY

\* C10: 204, 405 and 500 are answered by the gates, in this order, with the
\* body untouched and no call
C10_GatesFirst ==
  (C10_Gated /\ pc # "start") =>
    /\ req.method = "OPTIONS" => Answered(End(204))
    /\ req.method \notin {"OPTIONS", "POST"} => Answered(Error(405, "Method not allowed"))
    /\ req.method = "POST" => Answered(Error(500, "Missing LOFTY_API_KEY env var"))
    /\ calls = 0
    /\ raw = [isNull |-> FALSE, obj |-> EmptyObj]
    /\ fld = NoFld
    /\ err = ""

\* a preflight with no key configured and a body that is no JSON: 204
C10_Witness ==
  /\ rev = "strict"
  /\ req.method = "OPTIONS"
  /\ ~cfg.LOFTY_API_KEY
  /\ req.body.form = "malformed"
  /\ Answered(End(204))
  /\ calls = 0

(***************************************************************************)
(* C11.  An exception raised in the handler after the gates (a body that   *)
(* is no JSON, a body that parses to null, a rejected fetch, a CRM body    *)
(* that cannot be read) is answered 500 with the generic error message and *)
(* the stringified failure as detail: no exception leaves the handler and  *)
(* no other status is returned once one was raised.  Stated of the strict  *)
(* and the normalize revision.                                             *)
(***************************************************************************)
C11_ExceptionsAnswered500 ==
  rev \in {"strict", "normalize"} =>
    /\ pc # "escaped"
    /\ (err # "" /\ pc = "done") =>
         responses = <<ErrorDetail(500, "Server error", err)>>
    /\ err # "" => pc \in {"catch", "done"}

====
